---- MODULE Spec2Model ----
(***************************************************************************)
(* Kubernetes Cluster Clash: the match engine of the rulebook as a state  *)
(* machine.  One match: players, deck, discard pile, Commons Row, the      *)
(* seven-phase turn, the interrupt window of an Attack, the Stabilize      *)
(* checkpoint, the Chaos Monkey of solo mode.                              *)
(***************************************************************************)
EXTENDS Integers, Sequences, FiniteSets, TLC

(* ------------------------------------------------------------------ *)
(* Numbers of the rulebook                                             *)
(* ------------------------------------------------------------------ *)
StartingHand == 5
StartingResources == 5
StartingResilience == 6
RowSize == 3
RefreshHandSize == 5
RefreshGain == 2
DiscardGain == 1
MaxHandSize == 7
NodeResilienceBonus == 2
SloThreshold == 12
DuelSloThreshold == 15
WorkloadMinNodes == 2
WorkloadMinControlPlanes == 1
NodeRepairCost == 1
ControlPlaneRepairCost == 2
DefaultRepairCost == 1
MaxPlayers == 4

(* ------------------------------------------------------------------ *)
(* Bounds of the model                                                 *)
(* ------------------------------------------------------------------ *)
\* Turns explored per match.
MaxTurns == 2
\* The checkpoint inputs: SLO totals from SloSpread below the lower threshold to
\* SloSpread above the higher one, resilience from -ResilienceSpread to
\* ResilienceSpread.
MaxMarkers == 2
MaxRooms == 2
MaxSends == 2
\* WebSocket messages logged by the table view over a run, and those among
\* the entries of the log that are not plain untyped events.
\* Mounts of useGuestUser on one browser storage.
MaxMounts == 3
MaxLogged == 27
MaxTyped == 1
SloSpread == 1
ResilienceSpread == 1
\* Inbound actions waiting in the Action Queue of a match.
MaxQueue == 2
\* Budgeted actions (see Budgeted) the players take per match.
MaxEffort == 2

(* ------------------------------------------------------------------ *)
(* Card catalog: one entry per card kind used in the model             *)
(* ------------------------------------------------------------------ *)
Kinds == {"Node", "ControlPlane", "Workload", "Attack", "Response"}

\* type / cost / slo / effect of a catalog entry (CardDefinition).  The Attack
\* entry is AddIncident(target, 8), StealResource(target, 6), ReduceSLO(target, 1);
\* the Response entry is Cancel.
Catalog ==
  [k \in Kinds |->
     CASE k = "Node" ->
            [type |-> "Node", cost |-> 2, slo |-> 0, incidents |-> 0, steal |-> 0, sloLoss |-> 0]
       [] k = "ControlPlane" ->
            [type |-> "ControlPlane", cost |-> 2, slo |-> 0, incidents |-> 0, steal |-> 0, sloLoss |-> 0]
       [] k = "Workload" ->
            [type |-> "Workload", cost |-> 1, slo |-> 12, incidents |-> 0, steal |-> 0, sloLoss |-> 0]
       [] k = "Attack" ->
            [type |-> "Attack", cost |-> 4, slo |-> 0, incidents |-> 8, steal |-> 6, sloLoss |-> 1]
       [] k = "Response" ->
            [type |-> "Response", cost |-> 1, slo |-> 0, incidents |-> 0, steal |-> 0, sloLoss |-> 0]]

CardType(k) == Catalog[k].type
CardCost(k) == Catalog[k].cost
CardSlo(k) == Catalog[k].slo
AttackIncidents(k) == Catalog[k].incidents
AttackSteal(k) == Catalog[k].steal
AttackSloLoss(k) == Catalog[k].sloLoss

\* Incident markers sit on a kind of card a player controls or on the board itself.
IncidentKeys == {"Node", "ControlPlane", "Board"}

Phases == {"Refresh", "Plan", "Deploy", "Incidents", "Sabotage", "Stabilize", "End"}

\* A cycle that goes from Deploy straight to Sabotage.
PhaseSuccSkippingIncidents(ph) ==
  CASE ph = "Refresh"   -> "Plan"
    [] ph = "Plan"      -> "Deploy"
    [] ph = "Deploy"    -> "Sabotage"
    [] ph = "Incidents" -> "Sabotage"
    [] ph = "Sabotage"  -> "Stabilize"
    [] ph = "Stabilize" -> "End"
    [] ph = "End"       -> "Refresh"

\* The fixed cycle of one turn.
PhaseSucc(ph) ==
  CASE ph = "Refresh"   -> "Plan"
    [] ph = "Plan"      -> "Deploy"
    [] ph = "Deploy"    -> "Incidents"
    [] ph = "Incidents" -> "Sabotage"
    [] ph = "Sabotage"  -> "Stabilize"
    [] ph = "Stabilize" -> "End"
    [] ph = "End"       -> "Refresh"

ActionTypes ==
  {"play_card", "buy_card", "discard_for_resource", "remove_incident",
   "pay_repair", "play_attack", "play_response", "pass"}

(* ------------------------------------------------------------------ *)
(* Bags of cards (a hand, a board, the discard pile)                   *)
(* ------------------------------------------------------------------ *)
EmptyBag == [k \in Kinds |-> 0]

RECURSIVE SumOver(_, _)
SumOver(f, S) ==
  IF S = {} THEN 0
  ELSE LET x == CHOOSE y \in S : TRUE IN f[x] + SumOver(f, S \ {x})

BagSize(b) == SumOver(b, Kinds)
BagAdd(b, k) == [b EXCEPT ![k] = @ + 1]
BagRemove(b, k) == [b EXCEPT ![k] = @ - 1]
BagUnion(a, b) == [k \in Kinds |-> a[k] + b[k]]

RECURSIVE BagOfSeq(_)
BagOfSeq(q) == IF q = <<>> THEN EmptyBag ELSE BagAdd(BagOfSeq(Tail(q)), Head(q))

\* Every order of the cards of a bag: what a shuffle can produce.
RECURSIVE PermsOfBag(_)
PermsOfBag(b) ==
  IF BagSize(b) = 0 THEN {<<>>}
  ELSE UNION {{<<k>> \o q : q \in PermsOfBag(BagRemove(b, k))} : k \in {x \in Kinds : b[x] > 0}}

\* The sub-bags of b with exactly n cards.
SubBags(b, n) == {c \in [Kinds -> 0..n] : (\A k \in Kinds : c[k] <= b[k]) /\ BagSize(c) = n}

RemoveAt(q, i) == [j \in 1..(Len(q) - 1) |-> IF j < i THEN q[j] ELSE q[j + 1]]

VARIABLES
  numPlayers,    \* players of the match, 1..numPlayers in turn order
  solo,          \* solo / co-op mode: the Chaos Monkey plays
  hand,          \* hand[p]: bag of cards
  board,         \* board[p]: bag of played cards (the cluster board)
  resources,     \* resources[p]
  resilience,    \* resilience[p], may go below 0
  slo,           \* slo[p]
  incidents,     \* incidents[p][key]: markers
  eliminated,    \* eliminated[p]
  deck,          \* draw pile, top first
  discard,       \* discard pile (bag)
  commonsRow,    \* the face-up market
  active,        \* active player
  phase,         \* phase of the active player's turn
  round,         \* round counter
  winner,        \* 0: none
  status,        \* "running" | "won" | "over" | "aborted"
  window,        \* the interrupt window of an Attack
  refreshUsed,   \* the optional Refresh removal was taken this turn
  attacksPlayed, \* the Attacks the active player has played this turn
  monkeyPending, \* solo mode: the Chaos Monkey reveal is due
  last,          \* the answer to the inbound action of the last step, if any
  turn,          \* End steps taken so far
  effort,        \* budgeted actions accepted so far
  queue,         \* the Action Queue of the match: inbound actions, oldest first
  peer,          \* another match of the same engine: [state, queue]
  roomId,        \* table view: the room and user it is rendered for (0: not known yet)
  ranFor,        \* table view: the room and user the WebSocket effect last ran for
  sockets,       \* table view: the WebSockets created so far, oldest first
  wsRef,         \* table view: wsRef.current, a socket or 0 for null
  connectionStatus, \* table view: the status shown
  sent,          \* table view: per submitted turn the socket it went out on, 0 if dropped
  room,          \* table view: the room state
  user,          \* table view: the user useGuestUser returned, 0 for null
  mounted,       \* table view: the component is mounted
  requests,      \* table view: the fetchRoom / joinRoom calls made so far, oldest first
  members,       \* rooms service: the rooms the user is a member of
  messages,      \* table view: the WebSocket event log
  sessionPlayers, \* table view: the player list of the last session_snapshot
  received,      \* table view: the data of the WebSocket message handled last
  storage,       \* browser: the text of localStorage item kco_user, empty when absent
  hooks,         \* useGuestUser: the mounted instances so far, oldest first
  created        \* users service: guest users created so far

matchVars ==
  <<numPlayers, solo, hand, board, resources, resilience, slo, incidents, eliminated,
    deck, discard, commonsRow, active, phase, round, winner, status, window,
    refreshUsed, attacksPlayed, monkeyPending>>

queueVars == <<queue, peer>>

viewVars == <<roomId, ranFor, sockets, wsRef, connectionStatus, sent>>

pageVars ==
  <<room, user, mounted, requests, members, messages, sessionPlayers, received,
    storage, hooks, created>>

vars == <<matchVars, last, turn, effort, queueVars, viewVars, pageVars>>

Players == 1..numPlayers

NoWindow == [open |-> FALSE, attacker |-> 0, target |-> 0, key |-> "Board", card |-> "Attack"]

\* The Match State as one value.
MS ==
  [n |-> numPlayers, solo |-> solo, hand |-> hand, board |-> board,
   resources |-> resources, resilience |-> resilience, slo |-> slo,
   incidents |-> incidents, eliminated |-> eliminated, deck |-> deck,
   discard |-> discard, commonsRow |-> commonsRow, active |-> active,
   phase |-> phase, round |-> round, winner |-> winner, status |-> status,
   window |-> window, refreshUsed |-> refreshUsed, attacksPlayed |-> attacksPlayed,
   monkeyPending |-> monkeyPending]

Commit(t) ==
  /\ numPlayers' = t.n
  /\ solo' = t.solo
  /\ hand' = t.hand
  /\ board' = t.board
  /\ resources' = t.resources
  /\ resilience' = t.resilience
  /\ slo' = t.slo
  /\ incidents' = t.incidents
  /\ eliminated' = t.eliminated
  /\ deck' = t.deck
  /\ discard' = t.discard
  /\ commonsRow' = t.commonsRow
  /\ active' = t.active
  /\ phase' = t.phase
  /\ round' = t.round
  /\ winner' = t.winner
  /\ status' = t.status
  /\ window' = t.window
  /\ refreshUsed' = t.refreshUsed
  /\ attacksPlayed' = t.attacksPlayed
  /\ monkeyPending' = t.monkeyPending

(* ------------------------------------------------------------------ *)
(* Deck and market                                                     *)
(* ------------------------------------------------------------------ *)
\* The Response cards of a pile.
Responses(b) == [k \in Kinds |-> IF CardType(k) = "Response" THEN b[k] ELSE 0]

\* The other cards of a pile.
NonResponses(b) == [k \in Kinds |-> IF CardType(k) = "Response" THEN 0 ELSE b[k]]

\* The discarded Responses become the new deck, in any order; the other
\* discarded cards stay in the discard pile.
Reshuffle(s) ==
  {[s EXCEPT !.deck = q, !.discard = NonResponses(s.discard)]
     : q \in PermsOfBag(Responses(s.discard))}

\* The states in which a card can be taken from the deck: the state itself, or
\* every reshuffle when the deck is empty; none when the deck is empty and no
\* Response has been discarded.
Drawable(s) ==
  IF s.deck # <<>> THEN {s}
  ELSE IF BagSize(Responses(s.discard)) = 0 THEN {}
  ELSE Reshuffle(s)

TakeToHand(s, p) ==
  [s EXCEPT !.hand[p] = BagAdd(@, Head(s.deck)), !.deck = Tail(s.deck)]

\* Player p draws one card; a no-op when no card can be taken.
DrawCard(s, p) ==
  IF Drawable(s) = {} THEN {s} ELSE {TakeToHand(r, p) : r \in Drawable(s)}

RECURSIVE DrawCards(_, _, _)
DrawCards(S, p, k) ==
  IF k = 0 THEN S ELSE DrawCards(UNION {DrawCard(s, p) : s \in S}, p, k - 1)

TakeToRow(s) ==
  [s EXCEPT !.commonsRow = Append(@, Head(s.deck)), !.deck = Tail(s.deck)]

RevealToRow(s) ==
  IF Drawable(s) = {} THEN {s} ELSE {TakeToRow(r) : r \in Drawable(s)}

RECURSIVE RevealCards(_, _)
RevealCards(S, k) ==
  IF k = 0 THEN S ELSE RevealCards(UNION {RevealToRow(s) : s \in S}, k - 1)

\* Refill the Commons Row to RowSize from the deck.
RefillRow(s) ==
  RevealCards({s}, IF Len(s.commonsRow) >= RowSize THEN 0 ELSE RowSize - Len(s.commonsRow))

(* ------------------------------------------------------------------ *)
(* Setup                                                               *)
(* ------------------------------------------------------------------ *)
\* Shuffled decks the model starts from: the number of players, the mode and
\* the order of the main deck after the shuffle, top first.
Deals ==
  << [n |-> 2, solo |-> FALSE,
      order |-> <<"Attack", "Attack", "Attack", "Attack", "Attack",
                  "Response", "Response", "Response", "Response", "Node",
                  "Node", "Node", "Node",
                  "Node", "Node">>],
     [n |-> 3, solo |-> FALSE,
      order |-> <<"Node", "Node", "ControlPlane", "Workload", "Attack",
                  "Response", "Response", "Response", "Response", "Response",
                  "Response", "Response", "Response", "Response", "Response",
                  "Response", "Response", "Response",
                  "Response">>],
     [n |-> 1, solo |-> TRUE,
      order |-> <<"Response", "Response", "Response", "Response", "Response",
                  "Response", "Response", "Response",
                  "Attack">>] >>

DealtHand(order, p) ==
  BagOfSeq(SubSeq(order, StartingHand * (p - 1) + 1, StartingHand * p))

\* The Match State after setup: 5 cards and 5 resources each, resilience 6,
\* player 1 first, 3 cards revealed to the Commons Row.
Setup(d) ==
  [n |-> d.n, solo |-> d.solo,
   hand |-> [p \in 1..d.n |-> DealtHand(d.order, p)],
   board |-> [p \in 1..d.n |-> EmptyBag],
   resources |-> [p \in 1..d.n |-> StartingResources],
   resilience |-> [p \in 1..d.n |-> StartingResilience],
   slo |-> [p \in 1..d.n |-> 0],
   incidents |-> [p \in 1..d.n |-> [k \in IncidentKeys |-> 0]],
   eliminated |-> [p \in 1..d.n |-> FALSE],
   deck |-> SubSeq(d.order, StartingHand * d.n + RowSize + 1, Len(d.order)),
   discard |-> EmptyBag,
   commonsRow |-> SubSeq(d.order, StartingHand * d.n + 1, StartingHand * d.n + RowSize),
   active |-> 1, phase |-> "Refresh", round |-> 1, winner |-> 0,
   status |-> "running", window |-> NoWindow, refreshUsed |-> FALSE,
   attacksPlayed |-> 0, monkeyPending |-> FALSE]

\* No inbound action has been answered since the engine last moved by itself.
NoAnswer == [verdict |-> "none", actor |-> 0, type |-> "none"]

\* No other match is running.
NoPeer == [state |-> <<>>, queue |-> <<>>]

\* The match starts in Match State t.
Start(t) ==
  /\ numPlayers = t.n
  /\ solo = t.solo
  /\ hand = t.hand
  /\ board = t.board
  /\ resources = t.resources
  /\ resilience = t.resilience
  /\ slo = t.slo
  /\ incidents = t.incidents
  /\ eliminated = t.eliminated
  /\ deck = t.deck
  /\ discard = t.discard
  /\ commonsRow = t.commonsRow
  /\ active = t.active
  /\ phase = t.phase
  /\ round = t.round
  /\ winner = t.winner
  /\ status = t.status
  /\ window = t.window
  /\ refreshUsed = t.refreshUsed
  /\ attacksPlayed = t.attacksPlayed
  /\ monkeyPending = t.monkeyPending
  /\ last = NoAnswer
  /\ turn = 0
  /\ effort = 0

\* A match on its own, its queue empty.
\* The table view as first rendered: no room or user yet, no socket.
NoView ==
  /\ roomId = 0 /\ ranFor = 0 /\ sockets = <<>>
  /\ wsRef = 0 /\ connectionStatus = "connecting" /\ sent = <<>>

\* No WebSocket message handled yet.
NoData ==
  [parses |-> FALSE, isNull |-> FALSE, type |-> "undefined", hasPlayers |-> FALSE,
   players |-> <<>>, turn_id |-> "undefined", created_at |-> "undefined"]

\* useState<RoomDetails | null>(null): no room.
NoRoom == [id |-> 0, member |-> FALSE]

\* The table view at its first render, nothing requested or received yet, and
\* a browser storage without a guest user.
NoPage ==
  /\ room = NoRoom /\ user = 0 /\ mounted = TRUE /\ requests = <<>> /\ members = {}
  /\ messages = <<>> /\ sessionPlayers = <<>> /\ received = [n |-> 0, data |-> NoData]
  /\ storage = <<>> /\ hooks = <<>> /\ created = 0

Alone == queue = <<>> /\ peer = NoPeer /\ NoView /\ NoPage

Init == Alone /\ \E i \in 1..Len(Deals) : Start(Setup(Deals[i]))

(* ------------------------------------------------------------------ *)
(* Rules used by validation and resolution                             *)
(* ------------------------------------------------------------------ *)
Alive(s) == {p \in 1..s.n : ~s.eliminated[p]}

\* 12 SLO with 3 or 4 players, 15 in a duel and in solo / co-op.
Threshold(s) == IF s.n >= 3 /\ ~s.solo THEN SloThreshold ELSE DuelSloThreshold

\* A gate that is content with a single Node.
WorkloadAllowedWithOneNode(s, p) ==
  /\ s.board[p]["Node"] >= 1
  /\ s.board[p]["ControlPlane"] >= WorkloadMinControlPlanes

\* 1 Control Plane and 2 Nodes before any Workload.
WorkloadAllowed(s, p) ==
  /\ s.board[p]["Node"] >= WorkloadMinNodes
  /\ s.board[p]["ControlPlane"] >= WorkloadMinControlPlanes

ResilienceMax(s, p) == StartingResilience + NodeResilienceBonus * s.board[p]["Node"]

RepairCost(key) ==
  CASE key = "Node" -> NodeRepairCost
    [] key = "ControlPlane" -> ControlPlaneRepairCost
    [] OTHER -> DefaultRepairCost

MarkerCount(s, p) == SumOver(s.incidents[p], IncidentKeys)

\* A marker can be placed on the board, or on a kind of card the target controls.
KeyOnTarget(s, p, key) == key = "Board" \/ s.board[p][key] > 0

\* A phase gate that takes every known action type in every phase.
PhaseAllowsAnything(ph, type) == type \in ActionTypes

\* The phase gate: which action types a phase takes from the active player.
PhaseAllows(ph, type) ==
  CASE ph = "Refresh"   -> type \in {"remove_incident", "pass"}
    [] ph = "Plan"      -> type \in {"discard_for_resource", "pass"}
    [] ph = "Deploy"    -> type \in {"play_card", "buy_card", "pass"}
    [] ph = "Sabotage"  -> type \in {"play_attack", "pass"}
    [] ph = "Stabilize" -> type \in {"pay_repair", "pass"}
    [] OTHER            -> FALSE

\* Cards played to the cluster board during Deploy.
DeployTypes == {"Node", "ControlPlane", "Workload"}

(* ------------------------------------------------------------------ *)
(* Inbound actions                                                     *)
(* ------------------------------------------------------------------ *)
\* { actorId, actionType, payload }: the payload is a card, a Commons Row
\* position, a target player and the place of an Incident marker.
Msg(actor, type, card, idx, target, key) ==
  [actor |-> actor, type |-> type, card |-> card, idx |-> idx, target |-> target, key |-> key]

Inbound ==
  UNION {
    {Msg(a, "pass", "Node", 1, a, "Board"), Msg(a, "reboot", "Node", 1, a, "Board")}
    \cup {Msg(a, t, c, 1, a, "Board") : t \in {"play_card", "discard_for_resource"}, c \in Kinds}
    \cup {Msg(a, "play_response", c, 1, a, "Board") : c \in {"Response", "Node"}}
    \cup {Msg(a, "buy_card", "Node", i, a, "Board") : i \in 1..RowSize}
    \cup {Msg(a, t, "Node", 1, a, k) : t \in {"remove_incident", "pay_repair"}, k \in IncidentKeys}
    \cup {Msg(a, "play_attack", "Attack", 1, b, k) : b \in Players, k \in IncidentKeys}
    \cup {Msg(a, "play_attack", "Node", 1, b, "Board") : b \in Players \ {a}}
    : a \in Players }

\* What the payload of an action of the active player must satisfy.
ValidatePayload(s, m) ==
  LET a == m.actor IN
  CASE m.type = "remove_incident" ->
         IF s.refreshUsed \/ m.key = "Board" \/ s.incidents[a][m.key] = 0
           THEN "invalid_target" ELSE "ok"
    [] m.type = "discard_for_resource" ->
         IF s.hand[a][m.card] = 0 THEN "invalid_target" ELSE "ok"
    [] m.type = "play_card" ->
         IF s.hand[a][m.card] = 0 THEN "invalid_target"
         ELSE IF CardType(m.card) \notin DeployTypes THEN "wrong_phase"
         ELSE IF CardType(m.card) = "Workload" /\ ~WorkloadAllowed(s, a) THEN "unmet_prerequisite"
         ELSE IF s.resources[a] < CardCost(m.card) THEN "insufficient_resources"
         ELSE "ok"
    [] m.type = "buy_card" ->
         IF m.idx > Len(s.commonsRow) THEN "invalid_target"
         ELSE IF s.resources[a] < CardCost(s.commonsRow[m.idx]) THEN "insufficient_resources"
         ELSE "ok"
    [] m.type = "play_attack" ->
         IF s.hand[a][m.card] = 0 \/ CardType(m.card) # "Attack" THEN "invalid_target"
         ELSE IF m.target = a \/ s.eliminated[m.target] \/ s.resilience[m.target] <= 0
           THEN "invalid_target"
         ELSE IF ~KeyOnTarget(s, m.target, m.key) THEN "invalid_target"
         ELSE IF s.resources[a] < CardCost(m.card) THEN "insufficient_resources"
         ELSE "ok"
    [] m.type = "pay_repair" ->
         IF s.incidents[a][m.key] = 0 THEN "invalid_target"
         ELSE IF s.resources[a] < RepairCost(m.key) THEN "insufficient_resources"
         ELSE "ok"
    [] OTHER -> "ok"

\* A window that takes a Response or a pass from any player.
ValidateInWindowFromAnyone(s, m) ==
  IF m.type \notin {"play_response", "pass"} THEN "wrong_phase"
  ELSE IF m.type = "pass" THEN "ok"
  ELSE IF s.hand[m.actor][m.card] = 0 \/ CardType(m.card) # "Response" THEN "invalid_target"
  ELSE "ok"

\* While the interrupt window is open only the target's Response or pass is legal.
ValidateInWindow(s, m) ==
  IF m.actor # s.window.target THEN "not_your_turn"
  ELSE IF m.type \notin {"play_response", "pass"} THEN "wrong_phase"
  ELSE IF m.type = "pass" THEN "ok"
  ELSE IF s.hand[m.actor][m.card] = 0 \/ CardType(m.card) # "Response" THEN "invalid_target"
  ELSE "ok"

\* The verdict on an inbound action: "ok", or the validation error.
Validate(s, m) ==
  IF s.status # "running" THEN "match_over"
  ELSE IF m.type \notin ActionTypes THEN "unknown_type"
  ELSE IF s.eliminated[m.actor] THEN "eliminated"
  ELSE IF s.window.open THEN ValidateInWindow(s, m)
  ELSE IF s.monkeyPending THEN "wrong_phase"
  ELSE IF m.actor # s.active THEN "not_your_turn"
  ELSE IF ~PhaseAllows(s.phase, m.type) THEN "wrong_phase"
  ELSE ValidatePayload(s, m)

(* ------------------------------------------------------------------ *)
(* Resolution                                                          *)
(* ------------------------------------------------------------------ *)
\* Refresh: draw up to a hand of 5, gain 2 resources.
RefreshDraw(s, p) ==
  DrawCards({s}, p,
            IF BagSize(s.hand[p]) >= RefreshHandSize THEN 0
            ELSE RefreshHandSize - BagSize(s.hand[p]))

FinishRefresh(s) ==
  {[t EXCEPT !.resources[s.active] = @ + RefreshGain, !.phase = PhaseSucc(s.phase)]
     : t \in RefreshDraw(s, s.active)}

RemoveMarker(s, p, key) == [s EXCEPT !.incidents[p][key] = @ - 1]

\* Plan: a card of the hand goes to the discard pile for 1 resource.
DiscardForResource(s, p, c) ==
  [s EXCEPT !.hand[p] = BagRemove(@, c), !.discard = BagAdd(@, c),
            !.resources[p] = @ + DiscardGain]

\* The card leaves the hand for the cluster board and its cost is paid.
PlaceOnBoard(s, p, c) ==
  [s EXCEPT !.hand[p] = BagRemove(@, c), !.board[p] = BagAdd(@, c),
            !.resources[p] = @ - CardCost(c)]

\* Deploy: a Node raises resilience by 2, the first Control Plane draws a card,
\* a Workload scores its SLO value.
PlayCard(s, p, c) ==
  LET t == PlaceOnBoard(s, p, c) IN
  CASE CardType(c) = "Node" -> {[t EXCEPT !.resilience[p] = @ + NodeResilienceBonus]}
    [] CardType(c) = "ControlPlane" ->
         IF s.board[p]["ControlPlane"] = 0 THEN DrawCard(t, p) ELSE {t}
    [] CardType(c) = "Workload" -> {[t EXCEPT !.slo[p] = @ + CardSlo(c)]}
    [] OTHER -> {t}

\* Deploy: the bought card goes to the hand; the row is not refilled.
BuyCard(s, p, i) ==
  [s EXCEPT !.hand[p] = BagAdd(@, s.commonsRow[i]),
            !.commonsRow = RemoveAt(s.commonsRow, i),
            !.resources[p] = @ - CardCost(s.commonsRow[i])]

\* Incidents: every marker costs 1 resilience; the markers stay.
\* A resolution that clears the markers it resolves.
ResolveAndClearMarkers(s, p) ==
  [s EXCEPT !.resilience[p] = @ - MarkerCount(s, p),
            !.incidents[p] = [k \in IncidentKeys |-> 0]]

ResolveMarkers(s, p) == [s EXCEPT !.resilience[p] = @ - MarkerCount(s, p)]

\* Sabotage: the Attack is paid and discarded and the interrupt window opens.
OpenWindow(s, attacker, target, key, c) ==
  [s EXCEPT !.window = [open |-> TRUE, attacker |-> attacker, target |-> target,
                        key |-> key, card |-> c]]

\* An Attack after whose resolution the Sabotage phase goes on.
PlayAttackAgain(s, p, c, target, key) ==
  OpenWindow([s EXCEPT !.hand[p] = BagRemove(@, c), !.discard = BagAdd(@, c),
                       !.resources[p] = @ - CardCost(c),
                       !.attacksPlayed = @ + 1,
                       !.phase = "Incidents"],
             p, target, key, c)

PlayAttack(s, p, c, target, key) ==
  OpenWindow([s EXCEPT !.hand[p] = BagRemove(@, c), !.discard = BagAdd(@, c),
                       !.resources[p] = @ - CardCost(c),
                       !.attacksPlayed = @ + 1],
             p, target, key, c)

\* AddIncident(target, n): n markers on the named place of the target.
AddIncident(s, target, key, n) == [s EXCEPT !.incidents[target][key] = @ + n]

\* StealResource(target, n): the target loses n resources, or all it has if
\* it has fewer, to the attacking player (the Chaos Monkey keeps no resources).
StealResource(s, target, thief, n) ==
  LET taken == IF s.resources[target] < n THEN s.resources[target] ELSE n IN
  IF thief = 0 THEN [s EXCEPT !.resources[target] = @ - taken]
  ELSE [s EXCEPT !.resources[target] = @ - taken, !.resources[thief] = @ + taken]

\* ReduceSLO(target, n): the SLO total of the target goes down by n, not below 0.
ReduceSLO(s, target, n) == [s EXCEPT !.slo[target] = IF @ < n THEN 0 ELSE @ - n]

\* The effect instructions of the Attack, in the order of the card.
AttackEffect(s) ==
  LET w == s.window IN
  ReduceSLO(StealResource(AddIncident(s, w.target, w.key, AttackIncidents(w.card)),
                          w.target, w.attacker, AttackSteal(w.card)),
            w.target, AttackSloLoss(w.card))

\* After the window the turn of a player goes on to Stabilize; the Chaos
\* Monkey (attacker 0) acts between turns and moves no phase.
CloseWindow(s) ==
  [s EXCEPT !.window = NoWindow,
            !.phase = IF s.window.attacker = 0 THEN s.phase ELSE PhaseSucc(s.phase)]

\* A resolution that applies the effect a second time.
ResolveAttackTwice(s) == CloseWindow(AttackEffect(AttackEffect(s)))

\* No Response: the effect applies unmodified.
ResolveAttack(s) == CloseWindow(AttackEffect(s))

\* A Response that is discarded while the Attack still takes effect.
PlayResponseTooLate(s, p, c) ==
  CloseWindow(AttackEffect([s EXCEPT !.hand[p] = BagRemove(@, c), !.discard = BagAdd(@, c)]))

\* A Response resolves at once and is discarded; it cancels the Attack.
PlayResponse(s, p, c) ==
  CloseWindow([s EXCEPT !.hand[p] = BagRemove(@, c), !.discard = BagAdd(@, c)])

\* A repair that charges the cost twice.
PayRepairTwice(s, p, key) ==
  [s EXCEPT !.incidents[p][key] = @ - 1, !.resources[p] = @ - 2 * RepairCost(key)]

\* Stabilize: pay the repair cost, clear one marker.
PayRepair(s, p, key) ==
  [s EXCEPT !.incidents[p][key] = @ - 1, !.resources[p] = @ - RepairCost(key)]

(* ------------------------------------------------------------------ *)
(* Win Evaluator: the checkpoint at the end of Stabilize               *)
(* ------------------------------------------------------------------ *)
\* A failed cluster whose hand leaves the game instead of being discarded.
EliminateDroppingHand(s, p) ==
  [s EXCEPT !.hand[p] = EmptyBag, !.eliminated[p] = TRUE]

\* The cluster fails: the hand is discarded and the board is flipped (its
\* cards stay on it, out of play).
Eliminate(s, p) ==
  [s EXCEPT !.discard = BagUnion(@, s.hand[p]), !.hand[p] = EmptyBag, !.eliminated[p] = TRUE]

DeclareWinner(s, p) == [s EXCEPT !.winner = p, !.status = "won"]

\* An evaluator that lets the match run on after an elimination.
LastStandingIgnored(s) == s

\* After an elimination: a single survivor wins at once; with nobody left the
\* match is over without a winner.
LastStanding(s) ==
  IF Cardinality(Alive(s)) = 1 THEN DeclareWinner(s, CHOOSE p \in Alive(s) : TRUE)
  ELSE IF Alive(s) = {} THEN [s EXCEPT !.status = "over"]
  ELSE s

\* A cluster that already fails at resilience 0.
EliminableAtZero(s, p) == s.resilience[p] <= 0

\* The cluster fails when resilience has dropped below 0.
Eliminable(s, p) == s.resilience[p] < 0

\* A cluster that goes live with resilience 0.
VictoriousAtZero(s, p) == s.slo[p] >= Threshold(s) /\ s.resilience[p] >= 0

\* The cluster is live: the SLO threshold is reached and resilience is above 0.
Victorious(s, p) == s.slo[p] >= Threshold(s) /\ s.resilience[p] > 0

Checkpoint(s) ==
  LET p == s.active IN
  IF Eliminable(s, p) THEN LastStanding(Eliminate(s, p))
  ELSE IF Victorious(s, p) THEN DeclareWinner(s, p)
  ELSE s

FinishStabilize(s) ==
  LET t == Checkpoint(s) IN
  IF t.status = "running" THEN [t EXCEPT !.phase = PhaseSucc(s.phase)] ELSE t

(* ------------------------------------------------------------------ *)
(* End step and turn order                                             *)
(* ------------------------------------------------------------------ *)
Min(S) == CHOOSE x \in S : \A y \in S : x <= y

Following(s) == {p \in Alive(s) : p > s.active}

\* The next seat clockwise, whoever sits there.
NextSeat(s) == (s.active % s.n) + 1

\* The nearest following non-eliminated player, wrapping.
NextPlayer(s) == IF Following(s) # {} THEN Min(Following(s)) ELSE Min(Alive(s))

\* Discard down to 7 cards: the player chooses which.
DiscardDown(s, p) ==
  LET size == BagSize(s.hand[p]) IN
  IF size <= MaxHandSize THEN {s}
  ELSE {[s EXCEPT !.hand[p] = [k \in Kinds |-> @[k] - c[k]], !.discard = BagUnion(@, c)]
          : c \in SubBags(s.hand[p], size - MaxHandSize)}

\* The turn passes on; a wrap past the end of the turn order starts a round,
\* and in solo / co-op mode the Chaos Monkey reveal is then due.
AdvanceTurn(s) ==
  [s EXCEPT !.active = NextPlayer(s),
            !.round = IF Following(s) = {} THEN @ + 1 ELSE @,
            !.monkeyPending = s.solo /\ Following(s) = {},
            !.phase = PhaseSucc(s.phase),
            !.refreshUsed = FALSE,
            !.attacksPlayed = 0]

FinishEnd(s) ==
  {AdvanceTurn(t) : t \in UNION {RefillRow(r) : r \in DiscardDown(s, s.active)}}

(* ------------------------------------------------------------------ *)
(* Chaos Monkey                                                        *)
(* ------------------------------------------------------------------ *)
\* The player with the highest SLO total, then the lowest resilience, then
\* the first in turn order.
Leads(s, p, q) ==
  \/ s.slo[p] > s.slo[q]
  \/ s.slo[p] = s.slo[q] /\ s.resilience[p] < s.resilience[q]
  \/ s.slo[p] = s.slo[q] /\ s.resilience[p] = s.resilience[q] /\ p <= q

\* A Chaos Monkey that goes for the first player in turn order.
FirstAlive(s) == Min(Alive(s))

Leader(s) == CHOOSE p \in Alive(s) : \A q \in Alive(s) : Leads(s, p, q)

\* The top card of the deck is revealed and discarded; an Attack is played
\* at no cost against the leading player.
RevealTop(s) ==
  LET c == Head(s.deck)
      t == [s EXCEPT !.deck = Tail(s.deck), !.discard = BagAdd(@, c), !.monkeyPending = FALSE]
  IN IF CardType(c) = "Attack" THEN OpenWindow(t, 0, Leader(t), "Board", c) ELSE t

ChaosMonkey(s) ==
  IF Drawable(s) = {} THEN {[s EXCEPT !.monkeyPending = FALSE]}
  ELSE {RevealTop(r) : r \in Drawable(s)}

(* ------------------------------------------------------------------ *)
(* Turn Controller                                                     *)
(* ------------------------------------------------------------------ *)
\* The states an accepted action leads to.
Apply(s, m) ==
  LET a == m.actor IN
  IF s.window.open THEN
    IF m.type = "pass" THEN {ResolveAttack(s)} ELSE {PlayResponse(s, a, m.card)}
  ELSE
    CASE m.type = "pass" ->
           (CASE s.phase = "Refresh" -> FinishRefresh(s)
              [] s.phase = "Stabilize" -> {FinishStabilize(s)}
              [] OTHER -> {[s EXCEPT !.phase = PhaseSucc(s.phase)]})
      [] m.type = "remove_incident" ->
           {[RemoveMarker(s, a, m.key) EXCEPT !.refreshUsed = TRUE]}
      [] m.type = "discard_for_resource" -> {DiscardForResource(s, a, m.card)}
      [] m.type = "play_card" -> PlayCard(s, a, m.card)
      [] m.type = "buy_card" -> {BuyCard(s, a, m.idx)}
      [] m.type = "play_attack" -> {PlayAttack(s, a, m.card, m.target, m.key)}
      [] m.type = "pay_repair" -> {PayRepair(s, a, m.key)}

\* The answer to an inbound action: applied (whose, which type), or rejected
\* (the validation error goes to the actor, the Match State keeps no trace).
Applied(m) == [verdict |-> "applied", actor |-> m.actor, type |-> m.type]

Rejected == [verdict |-> "rejected", actor |-> 0, type |-> "none"]

\* The actions the model counts against MaxEffort: every action but a pass
\* and a play to the board (the hand and the resources bound the plays).
Budgeted(m) == m.type \notin {"pass", "play_card"}

\* An inbound action that passes validation is applied whole.  (The players
\* take at most MaxEffort budgeted actions in a match.)
Accept ==
  LET s == MS IN
  \E m \in Inbound :
    /\ Validate(s, m) = "ok"
    /\ Budgeted(m) => effort < MaxEffort
    /\ \E t \in Apply(s, m) : Commit(t)
    /\ last' = Applied(m)
    /\ effort' = IF Budgeted(m) THEN effort + 1 ELSE effort
    /\ UNCHANGED <<turn, queueVars, viewVars, pageVars>>

\* An inbound action that fails validation is rejected: nothing is applied.
Reject ==
  /\ LET s == MS IN ~(\A m \in Inbound : Validate(s, m) = "ok")
  /\ last' = Rejected
  /\ UNCHANGED <<matchVars, turn, effort, queueVars, viewVars, pageVars>>

\* The Incidents phase resolves by itself.
ResolveIncidents ==
  /\ status = "running" /\ ~window.open /\ phase = "Incidents"
  /\ Commit([ResolveMarkers(MS, active) EXCEPT !.phase = PhaseSucc(phase)])
  /\ last' = NoAnswer
  /\ UNCHANGED <<turn, effort, queueVars, viewVars, pageVars>>

\* The End step resolves by itself.
EndStep ==
  /\ status = "running" /\ ~window.open /\ phase = "End"
  /\ turn + 1 < MaxTurns
  /\ \E t \in FinishEnd(MS) : Commit(t)
  /\ turn' = turn + 1
  /\ last' = NoAnswer
  /\ UNCHANGED <<effort, queueVars, viewVars, pageVars>>

\* The interrupt window times out with no Response.
Timeout ==
  /\ status = "running" /\ window.open
  /\ Commit(ResolveAttack(MS))
  /\ last' = NoAnswer
  /\ UNCHANGED <<turn, effort, queueVars, viewVars, pageVars>>

ChaosReveal ==
  /\ status = "running" /\ ~window.open /\ monkeyPending
  /\ \E t \in ChaosMonkey(MS) : Commit(t)
  /\ last' = NoAnswer
  /\ UNCHANGED <<turn, effort, queueVars, viewVars, pageVars>>

\* An abort that awards the match to the active player.
AbortedInFavour(s) == [s EXCEPT !.status = "aborted", !.window = NoWindow, !.winner = s.active]

\* A collaborator ends the match: terminal, no winner.
Aborted(s) == [s EXCEPT !.status = "aborted", !.window = NoWindow]

Abort ==
  /\ status = "running"
  /\ Commit(Aborted(MS))
  /\ last' = NoAnswer
  /\ UNCHANGED <<turn, effort, queueVars, viewVars, pageVars>>

Next == Accept \/ Reject \/ ResolveIncidents \/ EndStep \/ Timeout \/ ChaosReveal \/ Abort

Spec == Init /\ [][Next]_vars

\* The window's timer runs whatever the players do.
FairSpec == Spec /\ WF_vars(Timeout)

(* ------------------------------------------------------------------ *)
(* The Stabilize checkpoint on its own                                 *)
(* ------------------------------------------------------------------ *)
\* A match of k players (solo for k = 1) right after setup.
CheckpointDeal(k) ==
  [n |-> k, solo |-> k = 1,
   order |-> [j \in 1..(StartingHand * k + RowSize) |-> "Response"]]

\* Match States at the end of the first player's Stabilize phase, with the
\* player's SLO total and resilience around the boundaries of the checkpoint.
CheckpointInputs ==
  {[Setup(CheckpointDeal(k)) EXCEPT !.phase = "Stabilize", !.slo[1] = v, !.resilience[1] = r]
     : k \in 1..MaxPlayers,
       v \in (SloThreshold - SloSpread)..(DuelSloThreshold + SloSpread),
       r \in (0 - ResilienceSpread)..ResilienceSpread}

CheckpointInit == Alone /\ \E t \in CheckpointInputs : Start(t)

\* The active player ends Stabilize: the checkpoint runs.
Evaluate == phase = "Stabilize" /\ Accept

CheckpointSpec == CheckpointInit /\ [][Evaluate]_vars

(* ------------------------------------------------------------------ *)
(* The Action Queue: two matches side by side                          *)
(* ------------------------------------------------------------------ *)
Enqueue(q, m) == Append(q, m)

\* A consumer that serves the newest action first.
Newest(q) == q[Len(q)]

\* The action the queue serves next: the oldest.
Front(q) == Head(q)

Dequeue(q) == Tail(q)

\* What serving action m does in Match State s: the Match States it may lead
\* to and the answer to the actor.
Serve(s, m) ==
  IF Validate(s, m) = "ok" THEN [states |-> Apply(s, m), answer |-> Applied(m)]
  ELSE [states |-> {s}, answer |-> Rejected]

\* The actions the participants of a match of n players submit here: a pass
\* of each player and an action of an unknown type.
Submittable(n) ==
  {Msg(a, "pass", "Node", 1, a, "Board") : a \in 1..n}
  \cup {Msg(1, "reboot", "Node", 1, 1, "Board")}

\* A participant's action arrives at the queue of the match.
Submit ==
  /\ Len(queue) < MaxQueue
  /\ \E m \in Submittable(numPlayers) : queue' = Enqueue(queue, m)
  /\ UNCHANGED <<matchVars, last, turn, effort, peer, viewVars, pageVars>>

\* The queue serves one action: validated, then applied or rejected.
Process ==
  /\ queue # <<>>
  /\ LET r == Serve(MS, Front(queue)) IN
       /\ \E t \in r.states : Commit(t)
       /\ last' = r.answer
  /\ queue' = Dequeue(queue)
  /\ UNCHANGED <<turn, effort, peer, viewVars, pageVars>>

PeerSubmit ==
  /\ Len(peer.queue) < MaxQueue
  /\ \E m \in Submittable(peer.state.n) : peer' = [peer EXCEPT !.queue = Enqueue(@, m)]
  /\ UNCHANGED <<matchVars, last, turn, effort, queue, viewVars, pageVars>>

PeerProcess ==
  /\ peer.queue # <<>>
  /\ \E t \in Serve(peer.state, Front(peer.queue)).states :
       peer' = [state |-> t, queue |-> Dequeue(peer.queue)]
  /\ UNCHANGED <<matchVars, last, turn, effort, queue, viewVars, pageVars>>

\* A duel and a solo match of the same engine, each with its own queue.
QueueInit ==
  /\ Start(Setup(Deals[1]))
  /\ queue = <<>>
  /\ peer = [state |-> Setup(Deals[3]), queue |-> <<>>]
  /\ NoView /\ NoPage

QueueNext == Submit \/ Process \/ PeerSubmit \/ PeerProcess

QueueSpec == QueueInit /\ [][QueueNext]_vars

(* ------------------------------------------------------------------ *)
(* The turn order on its own                                           *)
(* ------------------------------------------------------------------ *)
RECURSIVE EliminateAll(_, _)
EliminateAll(s, E) ==
  IF E = {} THEN s ELSE EliminateAll(Eliminate(s, Min(E)), E \ {Min(E)})

\* The sets of eliminated players a running match of k players can have: at
\* least two players are left, or the one player of a solo match.
Casualties(k) == {E \in SUBSET (1..k) : k - Cardinality(E) >= (IF k = 1 THEN 1 ELSE 2)}

\* Match States at the End step of any player's turn (the player may have been
\* eliminated in the Stabilize phase just before), for every number of players
\* and every set of eliminated players.
TurnInputs ==
  UNION {{[EliminateAll(Setup(CheckpointDeal(k)), E) EXCEPT !.phase = "End", !.active = a]
            : E \in Casualties(k), a \in 1..k}
         : k \in 1..MaxPlayers}

TurnInit == Alone /\ \E t \in TurnInputs : Start(t)

\* The active player passes on to the next phase.
PassPhase == Accept /\ last'.type = "pass"

TurnNext == EndStep \/ ChaosReveal \/ PassPhase \/ ResolveIncidents

TurnSpec == TurnInit /\ [][TurnNext]_vars

(* ------------------------------------------------------------------ *)
(* The Chaos Monkey on its own                                         *)
(* ------------------------------------------------------------------ *)
\* A solo / co-op match of k players right after setup with the cards of
\* top left in the deck.
MonkeyDeal(k, top) ==
  [n |-> k, solo |-> TRUE, order |-> CheckpointDeal(k).order \o top]

\* What the top of the deck is at the reveal: an Attack, another card, or no
\* card at all.
MonkeyTops == {<<"Attack">>, <<"Node">>, <<>>}

\* The Match State at the End step of the turn of player a in a solo / co-op
\* match of k players, of whom those in E are eliminated, with SLO totals v and
\* resiliences r.
MonkeyInput(k, top, E, a, v, r) ==
  [EliminateAll(Setup(MonkeyDeal(k, top)), E) EXCEPT
     !.phase = "End", !.active = a, !.slo = v, !.resilience = r]

\* The SLO totals and resiliences are spread over a few values so that
\* leaders and ties of every kind occur.
MonkeyInit ==
  /\ Alone
  /\ \E k \in 1..(MaxPlayers - 1) :
       \E top \in MonkeyTops, E \in Casualties(k), a \in 1..k :
         \E v \in [1..k -> 0..SloSpread],
            r \in [1..k -> (StartingResilience - ResilienceSpread)..StartingResilience] :
           Start(MonkeyInput(k, top, E, a, v, r))

\* The target of the Chaos Monkey answers in the interrupt window.
Respond == window.open /\ Accept

MonkeyNext == EndStep \/ ChaosReveal \/ Respond \/ Timeout

MonkeySpec == MonkeyInit /\ [][MonkeyNext]_vars

(* ------------------------------------------------------------------ *)
(* Incident markers over the turns of a player                         *)
(* ------------------------------------------------------------------ *)
\* Match States at the start of the first player's turn in a solo match or a
\* duel: the player has a Node and a Control Plane on the board and up to
\* MaxMarkers markers on each of them and on the board itself.
MarkerInputs ==
  {[Setup(CheckpointDeal(k)) EXCEPT
      !.board[1] = BagAdd(BagAdd(EmptyBag, "Node"), "ControlPlane"),
      !.resilience[1] = StartingResilience + NodeResilienceBonus,
      !.incidents[1] = i]
     : k \in 1..2, i \in [IncidentKeys -> 0..MaxMarkers]}

MarkerInit == Alone /\ \E t \in MarkerInputs : Start(t)

\* The active player removes a marker, repairs one or passes.
Mend == Accept /\ last'.type \in {"remove_incident", "pay_repair", "pass"}

MarkerNext == Mend \/ ResolveIncidents \/ EndStep \/ ChaosReveal

MarkerSpec == MarkerInit /\ [][MarkerNext]_vars

(* ------------------------------------------------------------------ *)
(* The table view and its WebSocket                                    *)
(* ------------------------------------------------------------------ *)
\* new WebSocket(...): readyState CONNECTING, for the room and user of the render.
NewSocket(r) == [room |-> r, state |-> "connecting"]

\* ws.close(): an open or connecting socket starts closing; its close event
\* comes later.
CloseSocket(w) ==
  IF w.state \in {"connecting", "open"} THEN [w EXCEPT !.state = "closing"] ELSE w

\* The socket the effect created when it ran for room r (0: none).
SocketOf(r) == IF \E i \in 1..Len(sockets) : sockets[i].room = r
               THEN CHOOSE i \in 1..Len(sockets) : sockets[i].room = r
               ELSE 0

\* useParams / useGuestUser deliver another room or user: the view renders
\* again with new dependencies.
Navigate ==
  /\ roomId < MaxRooms
  /\ roomId' = roomId + 1
  /\ UNCHANGED <<ranFor, sockets, wsRef, connectionStatus, sent>>
  /\ UNCHANGED <<matchVars, last, turn, effort, queueVars, pageVars>>

\* The cleanup of the effect's last run: wsRef.current = null; ws.close().
Cleanup(ss) ==
  IF SocketOf(ranFor) = 0 THEN ss
  ELSE [ss EXCEPT ![SocketOf(ranFor)] = CloseSocket(@)]

\* The WebSocket effect re-runs because [roomId, user] changed: the cleanup
\* of the last run, then a new socket, to which wsRef.current is set.
RunEffect ==
  /\ ranFor # roomId
  /\ sockets' = Append(Cleanup(sockets), NewSocket(roomId))
  /\ wsRef' = Len(sockets) + 1
  /\ ranFor' = roomId
  /\ UNCHANGED <<roomId, connectionStatus, sent>>
  /\ UNCHANGED <<matchVars, last, turn, effort, queueVars, pageVars>>

\* ws.onopen of socket i.
OnOpen ==
  /\ \E i \in 1..Len(sockets) :
        /\ sockets[i].state = "connecting"
        /\ sockets' = [sockets EXCEPT ![i].state = "open"]
  /\ connectionStatus' = "connected"
  /\ UNCHANGED <<roomId, ranFor, wsRef, sent>>
  /\ UNCHANGED <<matchVars, last, turn, effort, queueVars, pageVars>>

\* ws.onerror of socket i; the close event follows.
OnError ==
  /\ \E i \in 1..Len(sockets) :
        /\ sockets[i].state \in {"connecting", "open"}
        /\ sockets' = [sockets EXCEPT ![i].state = "failed"]
  /\ connectionStatus' = "error"
  /\ UNCHANGED <<roomId, ranFor, wsRef, sent>>
  /\ UNCHANGED <<matchVars, last, turn, effort, queueVars, pageVars>>

\* ws.onclose of socket i, closed by the cleanup, by the server or after an
\* error: setConnectionStatus("closed"); wsRef.current = null.
OnClose ==
  /\ \E i \in 1..Len(sockets) :
        /\ sockets[i].state # "closed"
        /\ sockets' = [sockets EXCEPT ![i].state = "closed"]
  /\ connectionStatus' = "closed"
  /\ wsRef' = 0
  /\ UNCHANGED <<roomId, ranFor, sent>>
  /\ UNCHANGED <<matchVars, last, turn, effort, queueVars, pageVars>>

\* handleSendTurn: the turn goes out on wsRef.current if that is an open
\* socket, and is dropped otherwise.
HandleSendTurn ==
  /\ Len(sent) < MaxSends
  /\ sent' = Append(sent, IF wsRef # 0 /\ sockets[wsRef].state = "open" THEN wsRef ELSE 0)
  /\ UNCHANGED <<roomId, ranFor, sockets, wsRef, connectionStatus>>
  /\ UNCHANGED <<matchVars, last, turn, effort, queueVars, pageVars>>

ViewInit == Start(Setup(Deals[1])) /\ Alone

ViewNext == Navigate \/ RunEffect \/ OnOpen \/ OnError \/ OnClose \/ HandleSendTurn

ViewSpec == ViewInit /\ [][ViewNext]_vars

(* ------------------------------------------------------------------ *)
(* The table view and its room                                         *)
(* ------------------------------------------------------------------ *)
\* The RoomDetails the rooms service returns for room r when the user is a
\* member of the rooms ms: the id and whether the member list holds the user.
RoomDetails(r, ms) == [id |-> r, member |-> r \in ms]

\* fetchRoom(roomId) called by a run of the first effect, whose closure holds
\* the flag ignore.
FetchRoom(r) ==
  [kind |-> "fetchRoom", room |-> r, state |-> "sent", details |-> NoRoom,
   ignore |-> FALSE, raced |-> FALSE]

\* joinRoom(roomId, user.id) called by a run of the second effect; raced
\* notes that a fetchRoom for the same room was in flight at the call.
JoinRoom(r, rs) ==
  [kind |-> "joinRoom", room |-> r, state |-> "sent", details |-> NoRoom,
   ignore |-> FALSE,
   raced |-> \E i \in 1..Len(rs) :
               /\ rs[i].kind = "fetchRoom" /\ rs[i].room = r
               /\ rs[i].state \in {"sent", "served"}]

\* The cleanup of the first effect: ignore = true in the closure of its last
\* run (the flags of earlier runs are set already).
CleanupFetch(rs) ==
  [i \in 1..Len(rs) |->
     IF rs[i].kind = "fetchRoom" THEN [rs[i] EXCEPT !.ignore = TRUE] ELSE rs[i]]

\* The first effect runs for roomId r: nothing without a roomId.
FetchEffect(rs, r) == IF r = 0 THEN rs ELSE Append(rs, FetchRoom(r))

\* The second effect runs for roomId r and user u: nothing without both.
JoinEffect(rs, r, u) == IF r = 0 \/ u = 0 THEN rs ELSE Append(rs, JoinRoom(r, rs))

\* setRoom(details): the state of a mounted component is set, a call after
\* the unmount has no effect.
SetRoom(d) == IF mounted THEN d ELSE room

\* The route delivers another roomId: the view renders again, the first
\* effect is cleaned up and both effects run for the new roomId.
ChangeRoom ==
  /\ mounted
  /\ roomId < MaxRooms
  /\ roomId' = roomId + 1
  /\ requests' = JoinEffect(FetchEffect(CleanupFetch(requests), roomId'), roomId', user)
  /\ UNCHANGED <<room, user, mounted, members>>
  /\ UNCHANGED <<ranFor, sockets, wsRef, connectionStatus, sent>>
  /\ UNCHANGED <<matchVars, last, turn, effort, queueVars>>
  /\ UNCHANGED <<messages, sessionPlayers, received, storage, hooks, created>>

\* useGuestUser delivers the user: the view renders again and the second
\* effect runs.
UserLoaded ==
  /\ mounted
  /\ user = 0
  /\ user' = 1
  /\ requests' = JoinEffect(requests, roomId, user')
  /\ UNCHANGED <<room, mounted, members>>
  /\ UNCHANGED <<matchVars, last, turn, effort, queueVars, viewVars>>
  /\ UNCHANGED <<messages, sessionPlayers, received, storage, hooks, created>>

\* The view unmounts: the cleanup of the first effect runs; the second effect
\* has none.
Unmount ==
  /\ mounted
  /\ mounted' = FALSE
  /\ requests' = CleanupFetch(requests)
  /\ UNCHANGED <<room, user, members>>
  /\ UNCHANGED <<matchVars, last, turn, effort, queueVars, viewVars>>
  /\ UNCHANGED <<messages, sessionPlayers, received, storage, hooks, created>>

\* The rooms service answers call i: POST /rooms/{id}/join adds the user to
\* the members, and both calls return the RoomDetails of that moment.
ServeRequest ==
  /\ \E i \in 1..Len(requests) :
        /\ requests[i].state = "sent"
        /\ members' = IF requests[i].kind = "joinRoom"
                      THEN members \cup {requests[i].room} ELSE members
        /\ requests' = [requests EXCEPT ![i].state = "served",
                                         ![i].details = RoomDetails(requests[i].room, members')]
  /\ UNCHANGED <<room, user, mounted>>
  /\ UNCHANGED <<matchVars, last, turn, effort, queueVars, viewVars>>
  /\ UNCHANGED <<messages, sessionPlayers, received, storage, hooks, created>>

\* Call i is rejected: .catch logs the error.
FailRequest ==
  /\ \E i \in 1..Len(requests) :
        /\ requests[i].state = "sent"
        /\ requests' = [requests EXCEPT ![i].state = "failed"]
  /\ UNCHANGED <<room, user, mounted, members>>
  /\ UNCHANGED <<matchVars, last, turn, effort, queueVars, viewVars>>
  /\ UNCHANGED <<messages, sessionPlayers, received, storage, hooks, created>>

\* The .then of call q: fetchRoom sets the room unless its run was cleaned
\* up, joinRoom sets it.
Then(q) ==
  IF q.kind = "fetchRoom" /\ q.ignore THEN room ELSE SetRoom(q.details)

\* The response of call i arrives, in any order among the calls in flight.
ResolveRequest ==
  /\ \E i \in 1..Len(requests) :
        /\ requests[i].state = "served"
        /\ room' = Then(requests[i])
        /\ requests' = [requests EXCEPT ![i].state = "done"]
  /\ UNCHANGED <<user, mounted, members>>
  /\ UNCHANGED <<matchVars, last, turn, effort, queueVars, viewVars>>
  /\ UNCHANGED <<messages, sessionPlayers, received, storage, hooks, created>>

RoomNext ==
  ChangeRoom \/ UserLoaded \/ Unmount \/ ServeRequest \/ FailRequest \/ ResolveRequest

RoomSpec == ViewInit /\ [][RoomNext]_vars

(* ------------------------------------------------------------------ *)
(* The WebSocket event log of the table view                           *)
(* ------------------------------------------------------------------ *)
\* prev.slice(0, 24): the entries kept when one is put in front.
LogKept == 24

\* event.data as JSON.parse and the handler read it: text that does not
\* parse, the JSON null (data.type throws inside the same try), session
\* snapshots with and without players, turns with and without turn_id and
\* created_at, events with and without a type.
WsFrames ==
  {NoData, [NoData EXCEPT !.parses = TRUE, !.isNull = TRUE]}
  \cup {[NoData EXCEPT !.parses = TRUE, !.type = "session_snapshot",
                       !.hasPlayers = (Len(ps) > 0), !.players = ps]
          : ps \in {<<>>, <<"ann">>, <<"bob", "ann">>}}
  \cup {[NoData EXCEPT !.parses = TRUE, !.type = "turn", !.turn_id = t[1], !.created_at = t[2]]
          : t \in {<<"undefined", "undefined">>, <<"t1", "earlier">>}}
  \cup {[NoData EXCEPT !.parses = TRUE, !.type = t] : t \in {"undefined", "player_joined"}}

\* x ?? d
Nullish(x, d) == IF x = "undefined" THEN d ELSE x

\* The WsMessage built for parsed data as the n-th entry logged: its id is
\* the turn_id or a fresh UUID, receivedAt the created_at or the time now.
WsEntry(data, n) ==
  IF data.type = "turn"
  THEN [id |-> Nullish(data.turn_id, "uuid"), type |-> "turn", payload |-> data,
        receivedAt |-> Nullish(data.created_at, "now"), n |-> n]
  ELSE [id |-> "uuid", type |-> Nullish(data.type, "event"), payload |-> data,
        receivedAt |-> "now", n |-> n]

\* [entry, ...prev]
PrependAll(entry, prev) == <<entry>> \o prev

\* [entry, ...prev.slice(0, 24)]
Prepend(entry, prev) ==
  <<entry>> \o SubSeq(prev, 1, IF Len(prev) < LogKept THEN Len(prev) ELSE LogKept)

\* The try block throws on data: JSON.parse fails, or data is null and
\* data.type throws.
Throws(data) == ~data.parses \/ data.isNull

\* ws.onmessage for event.data = data.
OnMessage ==
  \E data \in WsFrames :
    /\ IF Throws(data)
       THEN /\ UNCHANGED <<messages, sessionPlayers>>
            /\ received' = [received EXCEPT !.data = data]
       ELSE IF data.type = "session_snapshot"
       THEN /\ sessionPlayers' = (IF data.hasPlayers THEN data.players ELSE <<>>)
            /\ received' = [received EXCEPT !.data = data]
            /\ UNCHANGED messages
       ELSE /\ received.n < MaxLogged
            /\ WsEntry(data, 0).type # "event"
                 => Cardinality({i \in 1..Len(messages) : messages[i].type # "event"}) < MaxTyped
            /\ messages' = Prepend(WsEntry(data, received.n + 1), messages)
            /\ received' = [n |-> received.n + 1, data |-> data]
            /\ UNCHANGED sessionPlayers
    /\ UNCHANGED <<room, user, mounted, requests, members, storage, hooks, created>>
    /\ UNCHANGED <<matchVars, last, turn, effort, queueVars, viewVars>>

LogSpec == ViewInit /\ [][OnMessage]_vars

(* ------------------------------------------------------------------ *)
(* The guest user of a browser                                         *)
(* ------------------------------------------------------------------ *)
\* JSON.stringify(response.data) and JSON.parse(stored) for the user with id u.
Stringify(u) == <<u>>

Parse(text) == text[1]

\* useGuestUser mounts and its effect calls ensureUser: with an item stored,
\* setUser(JSON.parse(stored)) and setLoading(false); with none, POST /users
\* goes out and the instance waits, user null and loading true.
EnsureUser ==
  IF Len(storage) > 0
  THEN [user |-> Parse(storage), loading |-> FALSE, posting |-> FALSE,
        mounted |-> TRUE, path |-> "stored"]
  ELSE [user |-> 0, loading |-> TRUE, posting |-> TRUE,
        mounted |-> TRUE, path |-> "post"]

\* A component using the hook mounts, in any tab on the same storage.
Mount ==
  /\ Len(hooks) < MaxMounts
  /\ hooks' = Append(hooks, EnsureUser)
  /\ UNCHANGED <<storage, created>>
  /\ UNCHANGED <<room, user, mounted, requests, members, messages, sessionPlayers, received>>
  /\ UNCHANGED <<matchVars, last, turn, effort, queueVars, viewVars>>

\* The component of instance i unmounts; ensureUser goes on, its setUser and
\* setLoading have no effect any more.
Dismount ==
  /\ \E i \in 1..Len(hooks) :
        /\ hooks[i].mounted
        /\ hooks' = [hooks EXCEPT ![i].mounted = FALSE]
  /\ UNCHANGED <<storage, created>>
  /\ UNCHANGED <<room, user, mounted, requests, members, messages, sessionPlayers, received>>
  /\ UNCHANGED <<matchVars, last, turn, effort, queueVars, viewVars>>

\* POST /users of instance i succeeds with a new user: localStorage.setItem,
\* setUser(response.data), and setLoading(false) in the finally.
PostSucceeds ==
  /\ \E i \in 1..Len(hooks) :
        /\ hooks[i].posting
        /\ hooks' = [hooks EXCEPT
             ![i].posting = FALSE, ![i].path = "created",
             ![i].user = IF hooks[i].mounted THEN created + 1 ELSE @,
             ![i].loading = IF hooks[i].mounted THEN FALSE ELSE @]
  /\ created' = created + 1
  /\ storage' = Stringify(created + 1)
  /\ UNCHANGED <<room, user, mounted, requests, members, messages, sessionPlayers, received>>
  /\ UNCHANGED <<matchVars, last, turn, effort, queueVars, viewVars>>

\* POST /users of instance i fails: the catch logs, the finally runs
\* setLoading(false).
PostFails ==
  /\ \E i \in 1..Len(hooks) :
        /\ hooks[i].posting
        /\ hooks' = [hooks EXCEPT
             ![i].posting = FALSE, ![i].path = "failed",
             ![i].loading = IF hooks[i].mounted THEN FALSE ELSE @]
  /\ UNCHANGED <<storage, created>>
  /\ UNCHANGED <<room, user, mounted, requests, members, messages, sessionPlayers, received>>
  /\ UNCHANGED <<matchVars, last, turn, effort, queueVars, viewVars>>

GuestNext == Mount \/ Dismount \/ PostSucceeds \/ PostFails

GuestSpec == ViewInit /\ [][GuestNext]_vars

(* ------------------------------------------------------------------ *)
(* Card conservation                                                   *)
(* ------------------------------------------------------------------ *)
\* The number of cards the match started with: the whole shuffled deck.
InitialTotal ==
  LET i == CHOOSE j \in 1..Len(Deals) : Deals[j].n = numPlayers IN Len(Deals[i].order)

CardTotal ==
  Len(deck) + BagSize(discard) + Len(commonsRow)
  + SumOver([p \in Players |-> BagSize(hand[p])], Players)
  + SumOver([p \in Players |-> BagSize(board[p])], Players)

\* C1: in every reachable state the cards of the deck, the discard pile, the
\* hands, the cluster boards and the Commons Row add up to the number of cards
\* the match started with.
C1_CardConservation == CardTotal = InitialTotal

\* A player has been eliminated and their hand lies in the discard pile.
C1_Witness ==
  \E p \in Players :
    eliminated[p] /\ hand[p] = EmptyBag /\ BagSize(discard) >= StartingHand

(* ------------------------------------------------------------------ *)
(* Validate-then-apply                                                 *)
(* ------------------------------------------------------------------ *)
\* What makes an action of player a legal in the current state: the match is
\* running, the type is known, a is in the game, and either a is the target of
\* the open interrupt window answering it, or a is the active player acting in
\* the phase of the action.
C2_Legal(a, type) ==
  /\ status = "running"
  /\ a \in Players /\ ~eliminated[a]
  /\ IF window.open
       THEN a = window.target /\ type \in {"play_response", "pass"}
       ELSE /\ a = active /\ ~monkeyPending
            /\ CASE type = "remove_incident" -> phase = "Refresh"
                 [] type = "discard_for_resource" -> phase = "Plan"
                 [] type \in {"play_card", "buy_card"} -> phase = "Deploy"
                 [] type = "play_attack" -> phase = "Sabotage"
                 [] type = "pay_repair" -> phase = "Stabilize"
                 [] type = "pass" ->
                      phase \in {"Refresh", "Plan", "Deploy", "Sabotage", "Stabilize"}
                 [] OTHER -> FALSE

C3_Cycle == <<"Refresh", "Plan", "Deploy", "Incidents", "Sabotage", "Stabilize", "End">>

C3_Position(ph) == CHOOSE i \in 1..Len(C3_Cycle) : C3_Cycle[i] = ph

\* C3: the phase is always one of the seven; it only ever changes to the next
\* phase of the cycle, within the turn of the same player up to End, and from
\* End to the Refresh that starts the next turn.
C3_PhaseOrdering ==
  /\ phase \in Phases
  /\ [][ /\ phase' \in {C3_Cycle[i] : i \in 1..Len(C3_Cycle)}
         /\ phase' # phase =>
               /\ phase' = C3_Cycle[(C3_Position(phase) % Len(C3_Cycle)) + 1]
               /\ IF phase = "End" THEN turn' = turn + 1
                  ELSE turn' = turn /\ active' = active
         /\ turn' # turn => phase = "End" /\ phase' = "Refresh" ]_vars

\* A whole cycle has run: the second turn of the match is in its Stabilize phase.
C3_Witness == turn = 1 /\ phase = "Stabilize" /\ status = "running"

(* ------------------------------------------------------------------ *)
(* Workload prerequisite gate                                          *)
(* ------------------------------------------------------------------ *)
\* C4: in every reachable state a player who controls a Workload controls at
\* least 2 Nodes and at least 1 Control Plane.
C4_WorkloadGate ==
  \A p \in Players :
    board[p]["Workload"] > 0 => board[p]["Node"] >= 2 /\ board[p]["ControlPlane"] >= 1

\* A Workload has been played to a cluster board.
C4_Witness == \E p \in Players : board[p]["Workload"] > 0 /\ slo[p] > 0

(* ------------------------------------------------------------------ *)
(* Elimination                                                         *)
(* ------------------------------------------------------------------ *)
\* The step that runs the checkpoint: the active player's pass is applied in
\* the Stabilize phase.
CheckpointStep ==
  /\ phase = "Stabilize" /\ status = "running"
  /\ last'.verdict = "applied" /\ last'.type = "pass" /\ last'.actor = active

C6_Threshold == IF numPlayers >= 3 /\ ~solo THEN SloThreshold ELSE DuelSloThreshold

C7_Survivors == {p \in Players : ~eliminated[p]}

\* C7: a step that eliminates a player and leaves exactly one player in the
\* game declares that player winner in the same step, whatever their SLO
\* total; a declared winner is a player who is not eliminated, and the winner
\* never changes once declared.
C7_LastOneStanding ==
  /\ winner = 0
  /\ [][ /\ (C7_Survivors' # C7_Survivors /\ Cardinality(C7_Survivors') = 1) =>
               status' = "won" /\ winner' \in C7_Survivors'
         /\ winner' # 0 => winner' \in Players /\ ~eliminated'[winner'] /\ status' = "won"
         /\ status' = "won" => winner' # 0
         /\ winner # 0 => winner' = winner ]_vars

\* The last player standing has won with an SLO total below the threshold.
C7_Witness ==
  /\ status = "won" /\ winner # 0 /\ slo[winner] < SloThreshold
  /\ \A p \in Players \ {winner} : eliminated[p]

(* ------------------------------------------------------------------ *)
(* Response cancellation                                               *)
(* ------------------------------------------------------------------ *)
\* The step that opens the interrupt window of an Attack.
C8_Opens == ~window.open /\ window'.open

\* The step that applies the target's Response.
C8_Responds == window.open /\ last'.verdict = "applied" /\ last'.type = "play_response"

\* C8: opening the window of an Attack charges the attacking player the cost
\* of the Attack and touches no incident count, no SLO total and nobody else's
\* resources; nothing changes while the window stays open; the target's
\* Response closes the window with every incident count, every resource total
\* (the attacker is not refunded) and every SLO total as it was, and moves the
\* Response card from the target's hand to the discard pile.
C8_ResponseCancels ==
  [][ /\ C8_Opens =>
           /\ incidents' = incidents /\ slo' = slo
           /\ \A p \in Players :
                 resources'[p] = IF p = window'.attacker
                                   THEN resources[p] - Catalog[window'.card].cost
                                   ELSE resources[p]
      /\ (window.open /\ window'.open) => UNCHANGED matchVars
      /\ C8_Responds =>
           /\ ~window'.open /\ last'.actor = window.target
           /\ incidents' = incidents /\ resources' = resources /\ slo' = slo
           /\ hand'[window.target]["Response"] = hand[window.target]["Response"] - 1
           /\ discard'["Response"] = discard["Response"] + 1 ]_vars

\* A player's Attack has been cancelled by the target's Response: the Attack
\* and the Response lie in the discard pile and no marker was placed.
C8_Witness ==
  /\ last.verdict = "applied" /\ last.type = "play_response"
  /\ ~window.open /\ phase = "Stabilize"
  /\ discard["Attack"] > 0 /\ discard["Response"] > 0
  /\ resources[active] < StartingResources
  /\ \A p \in Players : \A k \in IncidentKeys : incidents[p][k] = 0

(* ------------------------------------------------------------------ *)
(* Interrupt window exclusivity                                        *)
(* ------------------------------------------------------------------ *)
\* The inbound actions the open window has no place for.
C9_Excluded ==
  {m \in Inbound : m.actor # window.target \/ m.type \notin {"play_response", "pass"}}

\* C9: while the interrupt window is open every action of another player and
\* every action of the target other than a Response or a pass fails
\* validation, the only actions applied are the target's Response or pass, no
\* incident count changes in the step that opens the window, and any step that
\* changes the Match State closes the window.
C9_WindowExclusive ==
  [][ /\ (~window.open /\ window'.open) => incidents' = incidents
      /\ window.open =>
           /\ \A m \in C9_Excluded : Validate(MS, m) # "ok"
           /\ last'.verdict = "applied" =>
                 last'.actor = window.target /\ last'.type \in {"play_response", "pass"}
           /\ window'.open => incidents' = incidents /\ resilience' = resilience
           /\ ~UNCHANGED matchVars => ~window'.open ]_vars

\* An action has been rejected while the window of a player's Attack is open.
C9_Witness ==
  /\ window.open /\ window.attacker # 0 /\ phase = "Sabotage"
  /\ last.verdict = "rejected" /\ status = "running"

(* ------------------------------------------------------------------ *)
(* The interrupt window closes                                         *)
(* ------------------------------------------------------------------ *)
\* The step that closes the window in a match that goes on.
C10_Closes == window.open /\ ~window'.open /\ status' # "aborted"

C10_ByResponse ==
  last'.verdict = "applied" /\ last'.type = "play_response" /\ last'.actor = window.target

C10_ByPass ==
  last'.verdict = "applied" /\ last'.type = "pass" /\ last'.actor = window.target

C10_ByTimeout == last'.verdict = "none"

\* The effect instructions of the Attack, once and unmodified: its markers on
\* the place it named, its theft from the target (of what the target has, at
\* most) to the attacking player, its cut of the target's SLO total (to 0 at
\* most), nothing else touched.
C10_EffectOnce ==
  LET e == Catalog[window.card]
      taken == IF resources[window.target] < e.steal THEN resources[window.target] ELSE e.steal
  IN
  /\ incidents' = [incidents EXCEPT ![window.target][window.key] = @ + e.incidents]
  /\ resources' = [p \in Players |->
                     IF p = window.target THEN resources[p] - taken
                     ELSE IF p = window.attacker THEN resources[p] + taken
                     ELSE resources[p]]
  /\ slo' = [slo EXCEPT ![window.target] = IF @ < e.sloLoss THEN 0 ELSE @ - e.sloLoss]
  /\ UNCHANGED <<hand, board, resilience, deck, discard, commonsRow>>

\* The claim as stated: every window that closes with no Response leaves the
\* turn in Stabilize.
C10_AsClaimed ==
  /\ window.open ~> ~window.open
  /\ [][ C10_Closes =>
           /\ C10_ByResponse \/ C10_ByPass \/ C10_ByTimeout
           /\ (C10_ByPass \/ C10_ByTimeout) => C10_EffectOnce /\ phase' = "Stabilize" ]_vars

\* C10 (amended): every opened interrupt window eventually closes; in a match
\* that goes on it closes by the target's Response, the target's pass or the
\* timeout; closed by pass or timeout the effect of the Attack is applied once
\* and unmodified; the turn then goes on to Stabilize when a player's Attack
\* opened the window, and the phase stays as it is when the Chaos Monkey's
\* Attack, revealed between turns, opened it.
C10_WindowCloses ==
  /\ window.open ~> ~window.open
  /\ [][ C10_Closes =>
           /\ C10_ByResponse \/ C10_ByPass \/ C10_ByTimeout
           /\ (C10_ByPass \/ C10_ByTimeout) =>
                 /\ C10_EffectOnce
                 /\ phase' = IF window.attacker = 0 THEN phase ELSE "Stabilize" ]_vars

\* The window of a player's Attack has timed out: the markers lie on the
\* target and the turn is in Stabilize.
C10_Witness ==
  /\ ~window.open /\ phase = "Stabilize" /\ last.verdict = "none" /\ status = "running"
  /\ \E p \in Players \ {active} : incidents[p]["Board"] = Catalog["Attack"].incidents

(* ------------------------------------------------------------------ *)
(* Per-match serialization                                             *)
(* ------------------------------------------------------------------ *)
\* Sequence q has grown by one action at its end.
C11_Grown(q, r) == Len(r) = Len(q) + 1 /\ SubSeq(r, 1, Len(q)) = q

\* C11: a step changes the Match State of at most one match, and only by
\* applying the oldest action of that match's queue, which passed validation
\* and leaves the queue in the same step; a queue only ever loses its oldest
\* action or gains one at its end; an action that fails validation leaves the
\* queue without changing any Match State, so the actions behind it are
\* served next in their order; serving or submitting in one match changes
\* neither the state nor the queue of the other.
C11_Serialized ==
  [][ /\ ~UNCHANGED matchVars =>
           /\ queue # <<>> /\ queue' = Tail(queue)
           /\ Validate(MS, Head(queue)) = "ok"
           /\ MS' \in Apply(MS, Head(queue))
           /\ last' = [verdict |-> "applied", actor |-> Head(queue).actor,
                       type |-> Head(queue).type]
           /\ peer' = peer
      /\ peer'.state # peer.state =>
           /\ peer.queue # <<>> /\ peer'.queue = Tail(peer.queue)
           /\ Validate(peer.state, Head(peer.queue)) = "ok"
           /\ peer'.state \in Apply(peer.state, Head(peer.queue))
           /\ UNCHANGED <<matchVars, queue>>
      /\ queue' # queue =>
           /\ peer' = peer
           /\ \/ C11_Grown(queue, queue') /\ UNCHANGED matchVars
              \/ /\ queue # <<>> /\ queue' = Tail(queue)
                 /\ Validate(MS, Head(queue)) # "ok" =>
                       UNCHANGED matchVars /\ last'.verdict = "rejected"
      /\ peer'.queue # peer.queue =>
           /\ UNCHANGED <<matchVars, queue>>
           /\ \/ C11_Grown(peer.queue, peer'.queue) /\ peer'.state = peer.state
              \/ /\ peer.queue # <<>> /\ peer'.queue = Tail(peer.queue)
                 /\ Validate(peer.state, Head(peer.queue)) # "ok" =>
                       peer'.state = peer.state ]_vars

\* An action has just been rejected, a valid action waits behind it, and the
\* other match has moved on meanwhile.
C11_Witness ==
  /\ last.verdict = "rejected" /\ queue # <<>> /\ Validate(MS, Head(queue)) = "ok"
  /\ peer.state.phase = "Deploy" /\ phase = "Plan"

(* ------------------------------------------------------------------ *)
(* Commons Row refill                                                  *)
(* ------------------------------------------------------------------ *)
C12_Buys == last'.verdict = "applied" /\ last'.type = "buy_card"

\* The End step completes.
C12_EndCompletes == phase = "End" /\ phase' = "Refresh"

\* C12: the Commons Row never holds more than 3 cards; a purchase takes one
\* card out of the row and draws nothing from the deck; the row changes only
\* by a purchase or by the End step; and when the End step completes the row
\* holds exactly 3 cards whenever deck and discard pile together held at least
\* as many cards as the row was short of.
C12_CommonsRow ==
  /\ Len(commonsRow) <= RowSize
  /\ [][ /\ Len(commonsRow') <= RowSize
         /\ C12_Buys =>
               Len(commonsRow') = Len(commonsRow) - 1 /\ deck' = deck /\ discard' = discard
         /\ commonsRow' # commonsRow => C12_Buys \/ C12_EndCompletes
         /\ (C12_EndCompletes
               /\ Len(deck) + BagSize(discard) >= RowSize - Len(commonsRow)) =>
               Len(commonsRow') = RowSize ]_vars

(* ------------------------------------------------------------------ *)
(* Draw on exhaustion                                                  *)
(* ------------------------------------------------------------------ *)
\* The Refresh step in which the active player has to draw.
C13_RefreshDraws ==
  /\ phase = "Refresh" /\ ~window.open
  /\ last'.verdict = "applied" /\ last'.type = "pass"
  /\ BagSize(hand[active]) < RefreshHandSize

\* The End step in which the row has to be refilled and no card is discarded
\* from the hand first.
C13_EndRefills ==
  /\ C12_EndCompletes /\ Len(commonsRow) < RowSize
  /\ BagSize(hand[active]) <= MaxHandSize

\* C13: a draw from an empty deck with a non-empty discard pile moves the
\* whole discard pile into the deck and then draws from it; a draw or a row
\* refill with deck and discard both empty changes neither hands, deck,
\* discard pile nor row and is not answered by a rejection or a failure.
C13_DrawOnExhaustion ==
  [][ /\ (deck = <<>> /\ BagSize(discard) > 0 /\ C13_RefreshDraws) =>
            /\ BagSize(hand'[active]) > BagSize(hand[active])
            /\ BagSize(discard') = 0
      /\ (deck = <<>> /\ BagSize(discard) > 0 /\ C13_EndRefills) =>
            /\ Len(commonsRow') > Len(commonsRow)
            /\ BagSize(discard') = 0
      /\ (deck = <<>> /\ BagSize(discard) = 0 /\ (C13_RefreshDraws \/ C13_EndRefills)) =>
            /\ UNCHANGED <<hand, deck, discard, commonsRow, status>>
            /\ last'.verdict # "rejected" ]_vars

(* ------------------------------------------------------------------ *)
(* Turn advance                                                        *)
(* ------------------------------------------------------------------ *)
\* The players met going clockwise from a to b, both excluded.
C14_Between(a, b) ==
  IF a < b THEN {p \in Players : a < p /\ p < b}
  ELSE {p \in Players : p > a \/ p < b}

\* C14: one player is active at any time; the active player changes only when
\* the End step completes, and is then a non-eliminated player with only
\* eliminated players between the old active player and the new one, going
\* clockwise; an eliminated player stays eliminated; the round counter never
\* decreases and goes up by one exactly when the advance wraps past the end
\* of the turn order.
C14_TurnAdvance ==
  /\ active \in Players
  /\ [][ /\ active' \in Players
         /\ \A p \in Players : eliminated[p] => eliminated'[p]
         /\ C12_EndCompletes =>
               /\ ~eliminated'[active']
               /\ \A p \in C14_Between(active, active') : eliminated[p]
               /\ round' = (IF active' <= active THEN round + 1 ELSE round)
         /\ ~C12_EndCompletes => active' = active /\ round' = round ]_vars

\* In a match of four, the turn has passed from the first player to the third
\* because the second is eliminated.
C14_Witness ==
  /\ numPlayers = 4 /\ turn = 1 /\ round = 1
  /\ eliminated[2] /\ ~eliminated[1] /\ active = 3

(* ------------------------------------------------------------------ *)
(* Sabotage limit                                                      *)
(* ------------------------------------------------------------------ *)
C15_AttackMessages == {m \in Inbound : m.type = "play_attack"}

\* No turn has seen more than one Attack, and every play_attack that follows
\* an Attack of the same turn, aims at the attacker or at an eliminated player,
\* or comes from another player or in another phase, fails validation.
C15_Refused ==
  /\ attacksPlayed <= 1
  /\ \A m \in C15_AttackMessages :
        (attacksPlayed >= 1 \/ m.target = m.actor \/ eliminated[m.target]
           \/ m.actor # active \/ phase # "Sabotage") => Validate(MS, m) # "ok"

C16_Leading(p) ==
  /\ ~eliminated[p]
  /\ \A q \in Players \ {p} : ~eliminated[q] =>
        \/ slo[p] > slo[q]
        \/ slo[p] = slo[q] /\ resilience[p] < resilience[q]
        \/ slo[p] = slo[q] /\ resilience[p] = resilience[q] /\ p < q

\* The Chaos Monkey reveals.
C16_Reveals == monkeyPending /\ ~monkeyPending'

\* C16: in solo / co-op mode the reveal is due when an End step completes the
\* round (each End step of a lone player) and no action is accepted before
\* it; with a card on the deck the reveal moves that card to the discard
\* pile and changes no player's resources, resilience, SLO total, incidents,
\* hand or board; a card that is no Attack opens no window; an Attack opens
\* the window, for no attacker, on the leading player.
C16_SoloReveal ==
  [][ /\ (C12_EndCompletes /\ solo) => (monkeyPending' <=> active' <= active)
      /\ monkeyPending => (last'.verdict # "applied")
      /\ (C16_Reveals /\ deck # <<>>) =>
            /\ deck' = Tail(deck) /\ discard' = BagAdd(discard, Head(deck))
            /\ UNCHANGED <<resources, resilience, slo, incidents, hand, board>>
            /\ CardType(Head(deck)) # "Attack" => ~window'.open
            /\ CardType(Head(deck)) = "Attack" =>
                  /\ window'.open /\ window'.attacker = 0
                  /\ window'.card = Head(deck)
                  /\ C16_Leading(window'.target) ]_vars

\* The Chaos Monkey's Attack is aimed at the second of three players: all
\* share the SLO total, the second and the third the lowest resilience.
C16_Witness ==
  /\ solo /\ numPlayers = 3 /\ window.open /\ window.attacker = 0
  /\ window.target = 2
  /\ slo[1] = slo[2] /\ slo[2] = slo[3] /\ ~eliminated[1] /\ ~eliminated[3]
  /\ resilience[2] < resilience[1] /\ resilience[2] = resilience[3]

(* ------------------------------------------------------------------ *)
(* Non-negative bookkeeping                                            *)
(* ------------------------------------------------------------------ *)
\* C17: in every reachable state the resource count and the SLO total of
\* every player are at least 0 (and so is every marker count); this covers the
\* states after a card cost or a repair cost is paid and after an Attack has
\* stolen from a target with fewer resources than it steals or cut an SLO
\* total smaller than its cut.
C17_NonNegative ==
  \A p \in Players :
    /\ resources[p] >= 0
    /\ slo[p] >= 0
    /\ \A k \in IncidentKeys : incidents[p][k] >= 0

\* An Attack that steals more than its target had and cuts more SLO than the
\* target had has been resolved: the target is left with 0 resources and an
\* SLO total of 0, and some player's resilience is below 0.
C17_Witness ==
  /\ \E p \in Players :
        /\ incidents[p]["Board"] = AttackIncidents("Attack")
        /\ resources[p] = 0 /\ slo[p] = 0
        /\ resilience[p] < 0
  /\ StartingResources < AttackSteal("Attack")

(* ------------------------------------------------------------------ *)
(* Incident persistence                                                *)
(* ------------------------------------------------------------------ *)
\* The Incidents phase resolves.
C18_Resolves == phase = "Incidents" /\ phase' = "Sabotage"

\* The resolution costs the active player 1 resilience per marker on their
\* cards and board and changes no marker count and nobody else's resilience.
C18_Resolution ==
  C18_Resolves =>
    /\ incidents' = incidents
    /\ resilience' = [resilience EXCEPT
                        ![active] = @ - SumOver(incidents[active], IncidentKeys)]

\* Marker count k of player p goes down by a repair paid in Stabilize.
C18_Repaired(p, k) ==
  /\ phase = "Stabilize" /\ p = active
  /\ last'.verdict = "applied" /\ last'.type = "pay_repair"
  /\ incidents'[p][k] = incidents[p][k] - 1
  /\ resources'[p] = resources[p] - RepairCost(k)

\* Marker count k of player p goes down by the optional removal in Refresh.
C18_Removed(p, k) ==
  /\ phase = "Refresh" /\ p = active /\ ~refreshUsed /\ k # "Board"
  /\ last'.verdict = "applied" /\ last'.type = "remove_incident"
  /\ incidents'[p][k] = incidents[p][k] - 1
  /\ resources'[p] = resources[p]

\* C18 as stated: the Incidents phase costs the active player 1 resilience
\* per marker and leaves the marker counts alone, and a marker count goes
\* down only by a repair paid in Stabilize.
C18_AsClaimed ==
  [][ /\ C18_Resolution
      /\ \A p \in Players : \A k \in IncidentKeys :
            incidents'[p][k] < incidents[p][k] => C18_Repaired(p, k) ]_vars

\* C18 (amended): the Incidents phase costs the active player 1 resilience
\* per marker on their cards and board and leaves the marker counts alone; a
\* marker count goes down only by one at a time, by a repair the owner pays
\* in Stabilize or by the one optional removal from a card in the owner's
\* Refresh, so the markers left are resolved again in the Incidents phase of
\* each later turn of that player.
C18_IncidentPersistence ==
  [][ /\ C18_Resolution
      /\ \A p \in Players : \A k \in IncidentKeys :
            incidents'[p][k] < incidents[p][k] => C18_Repaired(p, k) \/ C18_Removed(p, k) ]_vars

\* The lone player of a solo match is in the second turn, past its Incidents
\* phase: the two markers never repaired have cost 2 resilience in each turn.
C18_Witness ==
  /\ numPlayers = 1 /\ turn = 1 /\ phase = "Sabotage"
  /\ SumOver(incidents[1], IncidentKeys) = 2
  /\ resilience[1] = StartingResilience + NodeResilienceBonus - 4
  /\ effort = 0

(* ------------------------------------------------------------------ *)
(* Abort                                                               *)
(* ------------------------------------------------------------------ *)
\* The match is over: won, aborted, or left with nobody standing.
C19_Terminal == status # "running"

\* C19: the abort can be taken in every state of a running match, an open
\* interrupt window included; it leaves the match aborted, with no winner and
\* no window; in a terminal match every inbound action fails validation, no
\* step changes the Match State, and so the winner stays as it is: a winner
\* is only ever declared in a running match.
C19_Abort ==
  /\ [](~C19_Terminal => ENABLED Abort)
  /\ [][ /\ (~C19_Terminal /\ status' = "aborted") =>
               winner' = 0 /\ ~window'.open
         /\ C19_Terminal =>
               /\ UNCHANGED matchVars
               /\ \A m \in Inbound : Validate(MS, m) = "match_over"
               /\ last'.verdict # "applied"
         /\ winner' # winner => ~C19_Terminal /\ winner = 0 /\ status' = "won" ]_vars

\* The match was aborted while the interrupt window of the turn's Attack was
\* open: the Attack is paid, the turn is still in Sabotage, there is no winner.
C19_Witness ==
  /\ status = "aborted" /\ winner = 0 /\ ~window.open
  /\ phase = "Sabotage" /\ attacksPlayed = 1

(* ------------------------------------------------------------------ *)
(* The table view's socket reference                                   *)
(* ------------------------------------------------------------------ *)
\* The most recently created socket for the current room and user, once the
\* effect has run for them (0: none yet).
C20_Current == IF ranFor = roomId THEN SocketOf(roomId) ELSE 0

\* The close event of a socket created for an earlier room or user arrives
\* after the effect has created the current socket.
C20_StaleClose ==
  /\ C20_Current # 0
  /\ \E i \in 1..Len(sockets) :
        i # C20_Current /\ sockets[i].state # "closed" /\ sockets'[i].state = "closed"

\* C20: whenever the current socket is open, wsRef.current is that socket and
\* a submitted turn goes out on it; the close event of an earlier socket
\* changes neither wsRef.current nor the connection status.
C20_CurrentSocketKept ==
  [][ /\ (C20_Current' # 0 /\ sockets'[C20_Current'].state = "open") => wsRef' = C20_Current'
      /\ (C20_Current # 0 /\ sockets[C20_Current].state = "open" /\ Len(sent') > Len(sent)) =>
            sent'[Len(sent')] = C20_Current
      /\ C20_StaleClose => wsRef' = wsRef /\ connectionStatus' = connectionStatus ]_vars

(* ------------------------------------------------------------------ *)
(* The room of the table view                                          *)
(* ------------------------------------------------------------------ *)
\* The responses of the calls q and j have both arrived.
C21_BothResolved(q, j) ==
  /\ q.kind = "fetchRoom" /\ j.kind = "joinRoom"
  /\ q.room = roomId /\ j.room = roomId
  /\ q.state = "done" /\ j.state = "done"
  /\ ~q.ignore /\ j.raced

\* C21 (first part, fetchRoom): a fetchRoom response whose run was cleaned up,
\* by a later roomId or by the unmount, never sets the room, and no response
\* sets the room of an unmounted view.
C21_FetchGuarded ==
  [][/\ (\A i \in 1..Len(requests) :
           (requests[i].kind = "fetchRoom" /\ requests[i].state = "served"
            /\ requests[i].room # roomId /\ requests'[i].state = "done")
           => room' = room)
     /\ (~mounted => room' = room)]_vars

\* C21: the room state always belongs to the current roomId: no response of
\* fetchRoom or joinRoom requested for an earlier roomId, or arriving after
\* the unmount, sets the room.
C21_RoomIsCurrent ==
  [][(room' # room) => (mounted' /\ room'.id = roomId')]_vars

\* C21 (last part): when fetchRoom and joinRoom for the current room were in
\* flight together and both have resolved, the room shown contains the joined
\* member, whichever response arrived last.
C21_JoinedShown ==
  mounted =>
    \A i, j \in 1..Len(requests) :
      C21_BothResolved(requests[i], requests[j]) => room = RoomDetails(roomId, {roomId})

(* ------------------------------------------------------------------ *)
(* The WebSocket event log                                             *)
(* ------------------------------------------------------------------ *)
\* The log holds at most 25 entries, newest first: the most recently logged
\* message in front, each entry logged right before the one it precedes.
C22_Bounded ==
  /\ Len(messages) <= LogKept + 1
  /\ \A i \in 1..Len(messages) : messages[i].n = received.n + 1 - i

\* The step handles a parsed message that is no session_snapshot: it is put
\* at the front, the entries before it follow in their order, and the oldest
\* beyond 25 is gone.
C22_Logged ==
  (~Throws(received'.data) /\ received'.data.type # "session_snapshot")
  => /\ messages'[1].payload = received'.data
     /\ Len(messages') = (IF Len(messages) < LogKept + 1 THEN Len(messages) + 1 ELSE LogKept + 1)
     /\ \A i \in 2..Len(messages') : messages'[i] = messages[i - 1]
     /\ sessionPlayers' = sessionPlayers

\* The step handles a session_snapshot: the player list becomes the one of
\* the message (none: empty) and the log is as before.
C22_Snapshot ==
  (~Throws(received'.data) /\ received'.data.type = "session_snapshot")
  => /\ sessionPlayers' = received'.data.players
     /\ messages' = messages

\* The step handles a message that fails to parse: the log and the player
\* list are as before.
C22_Unparsed ==
  Throws(received'.data) => (messages' = messages /\ sessionPlayers' = sessionPlayers)

C23_Finished(h) ==
  (h.mounted /\ ~h.posting)
  => (~h.loading /\ (h.user # 0 <=> h.path \in {"stored", "created"}))

\* The step issues POST /users only with no user stored, and exposes a user
\* only once it is stored.
C23_Step ==
  /\ (Len(hooks') > Len(hooks) /\ hooks'[Len(hooks')].posting) => Len(storage) = 0
  /\ \A i \in 1..Len(hooks) :
       (hooks'[i].user # hooks[i].user) => storage' = Stringify(hooks'[i].user)

\* C23 (the three paths): every mounted instance of useGuestUser whose
\* ensureUser has finished has loading false; POST /users is issued only when
\* no user is stored; the created user is stored before it is exposed; a user
\* is exposed exactly when one was stored or the creation succeeded.
C23_Paths ==
  /\ [](\A i \in 1..Len(hooks) : C23_Finished(hooks[i]))
  /\ [][C23_Step]_vars

\* C23: one browser storage holds at most one guest identity over any
\* sequence of mounts: the user stored under kco_user is never replaced.
C23_OneIdentity == [][Len(storage) > 0 => storage' = storage]_vars

====
